---- MODULE Spec2Model ----
(***************************************************************************)
(* Model of the AI chat demo: the token endpoint (pages/api/get-token.js)  *)
(* and the session state owned by the ChatRoom page component              *)
(* (frontend/components/ChatRoom.js).                                      *)
(*                                                                         *)
(* Strings are sequences of chunks; a chunk is one character or one        *)
(* literal piece of a template string.  The empty string is << >>.         *)
(***************************************************************************)
EXTENDS Integers, Sequences, FiniteSets, TLC

\* ------------------------------------------------------------------------
\* Bounds of the model
\* ------------------------------------------------------------------------
MaxRooms == 2
MaxMsgs == 3
MaxNow == 1
MaxPending == 1

\* ------------------------------------------------------------------------
\* Strings
\* ------------------------------------------------------------------------
EmptyStr == << >>

Whitespace == {" "}

RECURSIVE TrimStart(_)
TrimStart(s) ==
  IF s # << >> /\ Head(s) \in Whitespace THEN TrimStart(Tail(s)) ELSE s

RECURSIVE TrimEnd(_)
TrimEnd(s) ==
  IF s # << >> /\ s[Len(s)] \in Whitespace
    THEN TrimEnd(SubSeq(s, 1, Len(s) - 1))
    ELSE s

\* a check of the raw field, without trim
Trim_Raw(s) == s

\* String.prototype.trim
Trim(s) == TrimEnd(TrimStart(s))

\* ------------------------------------------------------------------------
\* Token endpoint
\* ------------------------------------------------------------------------
roomName == <<"ai-chat-room">>

\* a lifetime of six minutes instead of six hours
TokenLifetime_Minutes == 6 * 60
TokenLifetime == 6 * 60 * 60

\* a value that may be undefined: process.env.X, req.body.username
Undefined == [set |-> FALSE, val |-> EmptyStr]
Val(s) == [set |-> TRUE, val |-> s]

\* JavaScript !v for a value that is undefined or a string
Falsy(v) == ~v.set \/ v.val = EmptyStr

\* a report that tests for undefined only and calls an empty value present
MissingOrPresent_UnsetOnly(v) == IF ~v.set THEN "Missing" ELSE "Present"
MissingOrPresent(v) == IF Falsy(v) THEN "Missing" ELSE "Present"

JwtSign(payload, secret, signOutcome) ==
  [threw |-> signOutcome = "throws",
   token |-> [alg |-> "HS256", secret |-> secret, claims |-> payload]]

NoDetails == [apiKey |-> "-", apiSecret |-> "-", wsUrl |-> "-"]
NoClaims ==
  [iss |-> EmptyStr, sub |-> EmptyStr, nbf |-> 0, exp |-> 0,
   video |-> [room |-> EmptyStr, roomJoin |-> FALSE, canPublish |-> FALSE,
              canSubscribe |-> FALSE, canPublishData |-> FALSE]]
NoToken == [alg |-> "none", secret |-> EmptyStr, claims |-> NoClaims]

Response(status, err, details, token, url, rn, signed) ==
  [status |-> status, error |-> err, details |-> details, token |-> token,
   wsUrl |-> url, roomName |-> rn, signReached |-> signed]

\* the request handler: req = [method, hasBody, username], env = [apiKey,
\* apiSecret, wsUrl], nowSec = Math.floor(Date.now() / 1000).  Status 0 with
\* error "TypeError" stands for the exception that escapes the handler when
\* req.body cannot be destructured.
handler(req, env, nowSec, signOutcome) ==
  IF req.method # "POST"
    THEN Response(405, <<"Method not allowed">>, NoDetails, NoToken,
                  EmptyStr, EmptyStr, FALSE)
  ELSE IF ~req.hasBody
    THEN Response(0, <<"TypeError">>, NoDetails, NoToken,
                  EmptyStr, EmptyStr, FALSE)
  ELSE IF Falsy(req.username)
    THEN Response(400, <<"Username is required">>, NoDetails, NoToken,
                  EmptyStr, EmptyStr, FALSE)
  ELSE IF Falsy(env.apiKey) \/ Falsy(env.apiSecret) \/ Falsy(env.wsUrl)
    THEN Response(500, <<"Missing LiveKit configuration">>,
                  [apiKey |-> MissingOrPresent(env.apiKey),
                   apiSecret |-> MissingOrPresent(env.apiSecret),
                   wsUrl |-> MissingOrPresent(env.wsUrl)],
                  NoToken, EmptyStr, EmptyStr, FALSE)
  ELSE
    LET payload ==
          [iss |-> env.apiKey.val,
           sub |-> req.username.val,
           nbf |-> nowSec,
           exp |-> nowSec + TokenLifetime,
           video |-> [room |-> roomName, roomJoin |-> TRUE,
                      canPublish |-> TRUE, canSubscribe |-> TRUE,
                      canPublishData |-> TRUE]]
        signed == JwtSign(payload, env.apiSecret.val, signOutcome)
    IN  IF signed.threw
          THEN Response(500, <<"Failed to generate token">>, NoDetails,
                        NoToken, EmptyStr, EmptyStr, TRUE)
          ELSE Response(200, EmptyStr, NoDetails, signed.token,
                        env.wsUrl.val, roomName, TRUE)

\* ------------------------------------------------------------------------
\* Inputs
\* ------------------------------------------------------------------------
AI_AGENT == <<"ai-agent">>
UsernameInputs == {<< >>, <<" ">>, <<"b", " ">>}
MessageInputs == {<< >>, <<" ">>, <<" ", "h">>}
RemoteIdentities == {AI_AGENT, <<"c">>}
PayloadInputs == {<<105, 255>>}
SenderInputs == {Undefined, Val(AI_AGENT), Val(<<"c">>)}
\* the values of Math.random(), in halves of a millisecond
RandomInputs == {0, 1}

EnvValues == {Undefined, Val(EmptyStr), Val(<<"v">>)}
EnvInputs == [apiKey : EnvValues, apiSecret : EnvValues, wsUrl : EnvValues]
GoodEnv ==
  [apiKey |-> Val(<<"key">>), apiSecret |-> Val(<<"secret">>),
   wsUrl |-> Val(<<"wss://lk">>)]
BadEnv == [GoodEnv EXCEPT !.apiSecret = Undefined]
BodyInputs ==
  {[hasBody |-> FALSE, username |-> Undefined],
   [hasBody |-> TRUE, username |-> Undefined],
   [hasBody |-> TRUE, username |-> Val(EmptyStr)],
   [hasBody |-> TRUE, username |-> Val(<<"a", "l", "i", "c", "e">>)],
   [hasBody |-> TRUE, username |-> Val(<<"b">>)]}
RequestInputs ==
  {[method |-> m, hasBody |-> b.hasBody, username |-> b.username] :
     m \in {"POST", "GET"}, b \in BodyInputs}
NowSecInputs == {0, 1700000000}
SignOutcomes == {"ok", "throws"}
\* a handled request is recorded with the clock reading and the outcome of
\* jwt.sign that the handler met
NoRequest ==
  [method |-> "none", hasBody |-> FALSE, username |-> Undefined,
   nowSec |-> 0, sign |-> "ok"]
NoResponse ==
  Response(-1, EmptyStr, NoDetails, NoToken, EmptyStr, EmptyStr, FALSE)

\* ------------------------------------------------------------------------
\* TextEncoder / TextDecoder (UTF-8) on the characters the inputs use
\* ------------------------------------------------------------------------
CodeOf(c) ==
  CASE c = " " -> 32
    [] c = "h" -> 104
    [] c = "i" -> 105
    [] OTHER -> 63

CharOf(b) ==
  CASE b = 32 -> " "
    [] b = 104 -> "h"
    [] b = 105 -> "i"
    [] b = 63 -> "?"
    [] OTHER -> "U+FFFD"

Encode(s) == [i \in 1..Len(s) |-> CodeOf(s[i])]
Decode(bytes) == [i \in 1..Len(bytes) |-> CharOf(bytes[i])]

\* ------------------------------------------------------------------------
\* State
\* ------------------------------------------------------------------------
VARIABLES
  httpReq, httpRes, serverEnv,
  room, messages, inputMessage, username, isConnected, isConnecting,
  error, participants,
  now, calls, pendingSends, scn

issuerVars == <<httpReq, httpRes, serverEnv>>
reactVars ==
  <<room, messages, inputMessage, username, isConnected, isConnecting,
    error, participants>>
vars ==
  <<httpReq, httpRes, serverEnv,
    room, messages, inputMessage, username, isConnected, isConnecting,
    error, participants, now, calls, pendingSends, scn>>

Joins == 1..MaxRooms

\* one record per invocation of connectToRoom that passed the username
\* check: where its continuation stands (pc), the Room object it created
\* (status, identity, disconnects) and the username it sent.  A record is
\* reused once the invocation has returned, its Room is closed and the
\* component no longer holds the Room (the objects are garbage).
NoCall ==
  [pc |-> "unused", status |-> "none", identity |-> EmptyStr,
   reqUser |-> EmptyStr, disconnects |-> 0]

NoScenario ==
  [stage |-> 0, m |-> EmptyStr, r |-> EmptyStr, held |-> FALSE,
   pubFailed |-> FALSE]

ControllerInit ==
  /\ room = 0
  /\ messages = << >>
  /\ inputMessage = EmptyStr
  /\ username = EmptyStr
  /\ isConnected = FALSE
  /\ isConnecting = FALSE
  /\ error = EmptyStr
  /\ participants = << >>
  /\ now = 0
  /\ calls = [a \in Joins |-> NoCall]
  /\ pendingSends = << >>
  /\ scn = NoScenario


\* ------------------------------------------------------------------------
\* Helpers of the page component
\* ------------------------------------------------------------------------
\* the login form rendered whenever no join is in progress, also over a
\* connected session
LoginScreen_NotConnecting == ~isConnecting

\* which of the three render branches is on screen
LoginScreen == ~isConnected /\ ~isConnecting
ConnectingScreen == isConnecting
\* the chat screen, with its disconnect control, rendered while connecting too
ChatScreen_WhileConnecting == ~LoginScreen

ChatScreen == ~LoginScreen /\ ~ConnectingScreen

\* message ids are numbers: Date.now(), or Date.now() + Math.random().
\* An id is kept in the unit of RandomInputs, half a millisecond.
DateNow == now * Cardinality(RandomInputs)

Msg(id, sender, text, isUser, isBot, isSystem) ==
  [id |-> id, sender |-> sender, message |-> text, timestamp |-> now,
   isUser |-> isUser, isBot |-> isBot, isSystem |-> isSystem]

SystemMsg(text) == Msg(DateNow, <<"System">>, text, FALSE, FALSE, TRUE)

ConnectedText == <<"Connected to chat room!">>
DisconnectedText == <<"Disconnected from chat room">>
AgentJoinedText == <<"AI Assistant joined the chat">>

\* the new message put in front: [m, ...prev]
AppendMsg_Prepend(prev, m) == <<m>> \o prev

\* the new message put in front of the last one
AppendMsg_BeforeLast(prev, m) ==
  IF prev = << >> THEN <<m>>
  ELSE SubSeq(prev, 1, Len(prev) - 1) \o <<m, prev[Len(prev)]>>

\* setMessages(prev => [...prev, m])
AppendMsg(prev, m) == Append(prev, m)

\* every message of a known participant tagged as the agent's
IsBot_AnyParticipant(participant) == participant.set

\* isBot of a received message
IsBot(participant) == participant.set /\ participant.val = AI_AGENT

\* a handler without the duplicate check
Includes_Never(list, x) == FALSE

\* Array.prototype.includes / filter
Includes(list, x) == \E i \in 1..Len(list) : list[i] = x

RECURSIVE Filter(_, _)
Filter(list, x) ==
  IF list = << >> THEN << >>
  ELSE IF Head(list) = x THEN Filter(Tail(list), x)
  ELSE <<Head(list)>> \o Filter(Tail(list), x)

\* a rollback filter that matches no message
FilterId_Nothing(list, id) == list

RECURSIVE FilterId(_, _)
FilterId(list, id) ==
  IF list = << >> THEN << >>
  ELSE IF Head(list).id = id THEN FilterId(Tail(list), id)
  ELSE <<Head(list)>> \o FilterId(Tail(list), id)

\* the remote participants a Room can report at the Connected event, in the
\* iteration order of its collection; identities are unique within a room
RemoteLists ==
  {<< >>, <<AI_AGENT>>, <<(<<"c">>)>>, <<AI_AGENT, <<"c">>>>,
   <<(<<"c">>), AI_AGENT>>}

\* room.disconnect() on the Room object of call a
RoomDisconnectCall(cs, a) ==
  [cs EXCEPT ![a].disconnects = @ + 1,
             ![a].status = IF @ \in {"connecting", "connected"}
                             THEN "closing" ELSE @]

\* setRoom(new) with no effect cleanup
SetRoom_NoCleanup(cs, new) == cs

\* setRoom(new) followed by the cleanup of the effect that depends on room:
\* the cleanup closes over the previous value and disconnects it
SetRoom(cs, new) ==
  IF room # 0 /\ room # new THEN RoomDisconnectCall(cs, room) ELSE cs

\* forget the invocations that have returned and whose Room is closed and
\* not held in the room state r
Collect(cs, r) ==
  [a \in Joins |->
     IF cs[a].pc = "done" /\ cs[a].status \in {"none", "closed"} /\ r # a
       THEN NoCall ELSE cs[a]]

FirstUnused == CHOOSE a \in Joins : calls[a].pc = "unused" /\
                 \A b \in Joins : b < a => calls[b].pc # "unused"

\* ------------------------------------------------------------------------
\* Scenario monitor (history): join, Connected, send, agent reply
\* ------------------------------------------------------------------------
ScnOff == [scn EXCEPT !.stage = -1]
ScnStep(from, to) == IF scn.stage = from THEN [scn EXCEPT !.stage = to] ELSE ScnOff

\* ------------------------------------------------------------------------
\* User actions
\* ------------------------------------------------------------------------
\* The user leaves u in the username field of the LoginForm (its onChange
\* handler is setUsername) and submits: connectToRoom up to its first await.
\* No other handler reads the field, so typing is not a step of its own.
connectToRoom(u) ==
  /\ LoginScreen
  /\ username' = u
  /\ IF Trim(u) = EmptyStr
       THEN /\ error' = <<"Please enter a username">>
            /\ scn' = ScnOff
            /\ UNCHANGED <<isConnecting, calls>>
       ELSE /\ \E a \in Joins : calls[a].pc = "unused"
            /\ isConnecting' = TRUE
            /\ error' = EmptyStr
            /\ calls' = [calls EXCEPT ![FirstUnused].pc = "fetch",
                                      ![FirstUnused].reqUser = Trim(u)]
            /\ scn' = ScnStep(0, 1)
  /\ UNCHANGED <<issuerVars, room, messages, inputMessage, isConnected,
                 participants, now, pendingSends>>

\* a catch block without setIsConnecting(false)
ConnectCatch_KeepsConnecting(a, msg, st) ==
  /\ error' = <<"Connection failed: ">> \o msg
  /\ calls' = Collect([calls EXCEPT ![a].pc = "done", ![a].status = st], room)
  /\ scn' = ScnOff
  /\ UNCHANGED <<issuerVars, room, messages, inputMessage, username,
                 isConnected, isConnecting, participants, now, pendingSends>>

\* the catch block of connectToRoom
ConnectCatch(a, msg, st) ==
  /\ error' = <<"Connection failed: ">> \o msg
  /\ isConnecting' = FALSE
  /\ calls' = Collect([calls EXCEPT ![a].pc = "done", ![a].status = st], room)
  /\ scn' = ScnOff
  /\ UNCHANGED <<issuerVars, room, messages, inputMessage, username,
                 isConnected, participants, now, pendingSends>>

StatusText(n) ==
  CASE n = 400 -> "400" [] n = 405 -> "405" [] n = 500 -> "500"
    [] OTHER -> "0"

\* the fetch of /api/get-token settles: the endpoint answers, or the fetch
\* rejects; on success the Room is created, its handlers are registered and
\* room.connect is called
FetchSettles(a) ==
  /\ calls[a].pc = "fetch"
  /\ \/ ConnectCatch(a, <<"Failed to fetch">>, "none")
     \/ \E env \in {GoodEnv, BadEnv} :
          LET res == handler([method |-> "POST", hasBody |-> TRUE,
                              username |-> Val(calls[a].reqUser)],
                             env, now \div 1000, "ok")
          IN  IF res.status # 200
                THEN ConnectCatch(a, <<"Token request failed: ",
                                       StatusText(res.status)>>, "none")
                ELSE /\ calls' = [calls EXCEPT
                                    ![a].pc = "connect",
                                    ![a].status = "connecting",
                                    ![a].identity = res.token.claims.sub]
                     /\ scn' = IF scn.stage = 1 THEN scn ELSE ScnOff
                     /\ UNCHANGED <<issuerVars, reactVars, now, pendingSends>>

\* room.connect rejects
ConnectRejects(a) ==
  /\ calls[a].pc = "connect"
  /\ calls[a].status = "connecting"
  /\ ConnectCatch(a, <<"could not establish signal connection">>, "closed")

\* room.connect resolved: setRoom(room)
ConnectReturns(a) ==
  /\ calls[a].pc = "resolved"
  /\ room' = a
  /\ calls' = Collect([SetRoom(calls, a) EXCEPT ![a].pc = "done"], a)
  /\ scn' = scn
  /\ UNCHANGED <<issuerVars, messages, inputMessage, username, isConnected,
                 isConnecting, error, participants, now, pendingSends>>


\* ------------------------------------------------------------------------
\* Room events (handlers registered in connectToRoom)
\* ------------------------------------------------------------------------
CanAppend == Len(messages) < MaxMsgs

\* updateParticipantsList(room), called from the Connected handler
updateParticipantsList(remotes, a) == remotes \o <<calls[a].identity>>

\* the Connected handler without setIsConnecting(false)
RoomConnected_KeepsConnecting(a) ==
  /\ calls[a].status = "connecting"
  /\ CanAppend
  /\ \E remotes \in RemoteLists :
       participants' = updateParticipantsList(remotes, a)
  /\ isConnected' = TRUE
  /\ error' = EmptyStr
  /\ messages' = AppendMsg(messages, SystemMsg(ConnectedText))
  /\ calls' = [calls EXCEPT ![a].status = "connected", ![a].pc = "resolved"]
  /\ scn' = ScnStep(1, 2)
  /\ UNCHANGED <<issuerVars, room, inputMessage, username, isConnecting, now,
                 pendingSends>>

\* RoomEvent.Connected
RoomConnected(a) ==
  /\ calls[a].status = "connecting"
  /\ CanAppend
  /\ \E remotes \in RemoteLists :
       participants' = updateParticipantsList(remotes, a)
  /\ isConnected' = TRUE
  /\ isConnecting' = FALSE
  /\ error' = EmptyStr
  /\ messages' = AppendMsg(messages, SystemMsg(ConnectedText))
  /\ calls' = [calls EXCEPT ![a].status = "connected", ![a].pc = "resolved"]
  /\ scn' = ScnStep(1, 2)
  /\ UNCHANGED <<issuerVars, room, inputMessage, username, now, pendingSends>>

\* RoomEvent.Disconnected: the server closed the connection, or a
\* room.disconnect() call has completed
RoomDisconnected(a) ==
  /\ calls[a].status \in {"connected", "closing"}
  /\ CanAppend
  /\ isConnected' = FALSE
  /\ participants' = << >>
  /\ messages' = AppendMsg(messages, SystemMsg(DisconnectedText))
  /\ calls' = Collect([calls EXCEPT ![a].status = "closed"], room)
  /\ scn' = ScnOff
  /\ UNCHANGED <<issuerVars, room, inputMessage, username, isConnecting,
                 error, now, pendingSends>>

\* RoomEvent.DataReceived(payload, participant)
DataReceived(a, payload, participant, rnd) ==
  /\ calls[a].status = "connected"
  /\ CanAppend
  /\ LET message == Decode(payload)
     IN  /\ messages' = AppendMsg(messages,
              Msg(DateNow + rnd,
                  IF Falsy(participant) THEN <<"Unknown">> ELSE participant.val,
                  message, FALSE,
                  IsBot(participant), FALSE))
         /\ scn' = IF scn.stage = 3 /\ participant = Val(AI_AGENT)
                     THEN [scn EXCEPT !.stage = 4, !.r = message]
                     ELSE ScnOff
  /\ UNCHANGED <<issuerVars, room, inputMessage, username, isConnected,
                 isConnecting, error, participants, now, calls, pendingSends>>

\* RoomEvent.ParticipantConnected(participant)
ParticipantConnected(a, identity) ==
  /\ calls[a].status = "connected"
  /\ participants' = IF ~Includes(participants, identity)
                       THEN Append(participants, identity)
                       ELSE participants
  /\ IF identity = AI_AGENT
       THEN /\ CanAppend
            /\ messages' = AppendMsg(messages, SystemMsg(AgentJoinedText))
       ELSE UNCHANGED messages
  /\ scn' = ScnOff
  /\ UNCHANGED <<issuerVars, room, inputMessage, username, isConnected,
                 isConnecting, error, now, calls, pendingSends>>

\* RoomEvent.ParticipantDisconnected(participant)
ParticipantDisconnected(a, identity) ==
  /\ calls[a].status = "connected"
  /\ participants' = Filter(participants, identity)
  /\ scn' = ScnOff
  /\ UNCHANGED <<issuerVars, room, messages, inputMessage, username,
                 isConnected, isConnecting, error, now, calls, pendingSends>>

\* ------------------------------------------------------------------------
\* Sending and leaving
\* ------------------------------------------------------------------------
\* The user leaves t in the message field (its onChange handler is
\* setInputMessage) and submits: sendMessage up to its await
sendMessage(t) ==
  /\ ChatScreen
  /\ IF Trim(t) = EmptyStr \/ room = 0 \/ ~isConnected
       THEN /\ inputMessage' = t
            /\ UNCHANGED <<messages, pendingSends>>
       ELSE /\ Len(pendingSends) < MaxPending
            /\ CanAppend
            /\ inputMessage' = EmptyStr
            /\ messages' = AppendMsg(messages,
                 Msg(DateNow, username, Trim(t), TRUE, FALSE, FALSE))
            /\ pendingSends' = Append(pendingSends, Encode(Trim(t)))
  /\ scn' = IF scn.stage = 2 /\ t # EmptyStr
              THEN [scn EXCEPT !.stage = 3, !.m = t,
                               !.held = (room # 0)]
              ELSE ScnOff
  /\ UNCHANGED <<issuerVars, room, username, isConnected, isConnecting,
                 error, participants, now, calls>>

\* publishData resolved
PublishResolves ==
  /\ pendingSends # << >>
  /\ pendingSends' = Tail(pendingSends)
  /\ scn' = scn
  /\ UNCHANGED <<issuerVars, reactVars, now, calls>>

\* publishData rejected: the catch block of sendMessage
PublishRejects ==
  /\ pendingSends # << >>
  /\ pendingSends' = Tail(pendingSends)
  /\ error' = <<"Failed to send message: ", "publish failed">>
  /\ messages' = FilterId(messages, DateNow)
  /\ scn' = [scn EXCEPT !.pubFailed = TRUE]
  /\ UNCHANGED <<issuerVars, room, inputMessage, username, isConnected,
                 isConnecting, participants, now, calls>>

\* disconnect without setMessages([])
disconnect_KeepsMessages ==
  /\ ChatScreen
  /\ IF room # 0
       THEN /\ calls' = Collect(SetRoom(RoomDisconnectCall(calls, room), 0), 0)
            /\ room' = 0
       ELSE UNCHANGED <<calls, room>>
  /\ isConnected' = FALSE
  /\ participants' = << >>
  /\ error' = EmptyStr
  /\ scn' = ScnOff
  /\ UNCHANGED <<issuerVars, messages, inputMessage, username, isConnecting,
                 now, pendingSends>>

\* disconnect (ChatHeader onDisconnect)
disconnect ==
  /\ ChatScreen
  /\ IF room # 0
       THEN /\ calls' = Collect(SetRoom(RoomDisconnectCall(calls, room), 0), 0)
            /\ room' = 0
       ELSE UNCHANGED <<calls, room>>
  /\ isConnected' = FALSE
  /\ participants' = << >>
  /\ messages' = << >>
  /\ error' = EmptyStr
  /\ scn' = ScnOff
  /\ UNCHANGED <<issuerVars, inputMessage, username, isConnecting, now,
                 pendingSends>>

\* the clock behind Date.now() advances
Tick ==
  /\ now < MaxNow
  /\ now' = now + 1
  /\ scn' = scn
  /\ UNCHANGED <<issuerVars, reactVars, calls, pendingSends>>

\* ------------------------------------------------------------------------
\* Specification of the session controller: the connection life cycle and
\* the presence events, over any number of sessions, with the continuation
\* of connectToRoom scheduled on its own
\* ------------------------------------------------------------------------
Init ==
  /\ httpReq = NoRequest
  /\ httpRes = NoResponse
  /\ serverEnv = GoodEnv
  /\ ControllerInit

Next ==
  \/ \E u \in UsernameInputs : connectToRoom(u)
  \/ \E a \in Joins : FetchSettles(a)
  \/ \E a \in Joins : ConnectRejects(a)
  \/ \E a \in Joins : ConnectReturns(a)
  \/ \E a \in Joins : RoomConnected(a)
  \/ \E a \in Joins : RoomDisconnected(a)
  \/ \E a \in Joins, identity \in RemoteIdentities :
       ParticipantConnected(a, identity)
  \/ \E a \in Joins, identity \in RemoteIdentities :
       ParticipantDisconnected(a, identity)
  \/ disconnect

Spec == Init /\ [][Next]_vars

\* The same steps under the scheduling the runtime gives them: a token
\* request that is pending settles, and a connect call that is pending
\* either fires Connected or throws.  Nothing obliges the user or the room
\* service to take any other step.
Completes(a) ==
  /\ WF_vars(FetchSettles(a))
  /\ WF_vars(RoomConnected(a) \/ ConnectRejects(a))

FairSpec == Init /\ [][Next]_vars /\ \A a \in Joins : Completes(a)

\* ------------------------------------------------------------------------
\* Specification of the receiving side: sessions that are joined, take in
\* data from any sender and are closed by the room service, with the clock
\* ------------------------------------------------------------------------
ReceiveNext ==
  \/ \E u \in UsernameInputs : connectToRoom(u)
  \/ \E a \in Joins : FetchSettles(a)
  \/ \E a \in Joins : ConnectReturns(a)
  \/ \E a \in Joins : RoomConnected(a)
  \/ \E a \in Joins : RoomDisconnected(a)
  \/ \E a \in Joins, payload \in PayloadInputs, participant \in SenderInputs,
        rnd \in RandomInputs :
       DataReceived(a, payload, participant, rnd)
  \/ Tick

ReceiveSpec == Init /\ [][ReceiveNext]_vars

\* ------------------------------------------------------------------------
\* Specification of one chat with the agent: join, the Connected event,
\* sending with either outcome of the publish, data from ai-agent, and the
\* clock
\* ------------------------------------------------------------------------
ChatNext ==
  \/ \E u \in UsernameInputs : connectToRoom(u)
  \/ \E a \in Joins : FetchSettles(a)
  \/ \E a \in Joins : ConnectReturns(a)
  \/ \E a \in Joins : RoomConnected(a)
  \/ \E a \in Joins, payload \in PayloadInputs, rnd \in RandomInputs :
       DataReceived(a, payload, Val(AI_AGENT), rnd)
  \/ \E t \in MessageInputs : sendMessage(t)
  \/ PublishResolves
  \/ PublishRejects
  \/ Tick

ChatSpec == Init /\ [][ChatNext]_vars

\* ------------------------------------------------------------------------
\* Specification of the message log: every step that appends a message
\* (the Connected, Disconnected and agent-joined notices, received data,
\* local sends), over successive sessions, with the clock
\* ------------------------------------------------------------------------
MessageLogNext ==
  \/ \E u \in UsernameInputs : connectToRoom(u)
  \/ \E a \in Joins : FetchSettles(a)
  \/ \E a \in Joins : ConnectReturns(a)
  \/ \E a \in Joins : RoomConnected(a)
  \/ \E a \in Joins : RoomDisconnected(a)
  \/ \E a \in Joins, payload \in PayloadInputs, rnd \in RandomInputs :
       DataReceived(a, payload, Val(AI_AGENT), rnd)
  \/ \E a \in Joins : ParticipantConnected(a, AI_AGENT)
  \/ \E t \in MessageInputs : sendMessage(t)
  \/ PublishResolves
  \/ Tick

MessageLogSpec == Init /\ [][MessageLogNext]_vars

\* ------------------------------------------------------------------------
\* Specification of the token endpoint
\* ------------------------------------------------------------------------
IssuerInit ==
  /\ httpReq = NoRequest
  /\ httpRes = NoResponse
  /\ serverEnv \in EnvInputs
  /\ ControllerInit

HandleRequest ==
  /\ \E req \in RequestInputs, nowSec \in NowSecInputs, so \in SignOutcomes :
       /\ httpReq' = [method |-> req.method, hasBody |-> req.hasBody,
                       username |-> req.username, nowSec |-> nowSec,
                       sign |-> so]
       /\ httpRes' = handler(req, serverEnv, nowSec, so)
  /\ UNCHANGED <<serverEnv, reactVars, now, calls, pendingSends, scn>>

IssuerNext == HandleRequest

IssuerSpec == IssuerInit /\ [][IssuerNext]_vars


\* ========================================================================
\* Properties of the token endpoint (checked under IssuerSpec)
\* ========================================================================
Handled == httpReq.method # "none"
UsernameMissing == ~httpReq.hasBody \/ Falsy(httpReq.username)
ConfigIncomplete ==
  Falsy(serverEnv.apiKey) \/ Falsy(serverEnv.apiSecret) \/ Falsy(serverEnv.wsUrl)

\* C1: every POST request whose username is missing (no username field, an
\* empty username, or no body object at all) is answered with status 400 and
\* the error 'Username is required', and jwt.sign is not reached, whatever
\* the configuration is.  The request without a body object refutes it: the
\* destructuring of req.body throws before the check.
C1_MissingUsernameIs400 ==
  (Handled /\ httpReq.method = "POST" /\ UsernameMissing)
    => /\ httpRes.status = 400
       /\ httpRes.error = <<"Username is required">>
       /\ ~httpRes.signReached

\* C2 as stated: every handled request, while any of the three configuration
\* values is unset, is answered with status 500 and a details object with
\* exactly the keys apiKey, apiSecret, wsUrl, each 'Missing' exactly when the
\* value is unset, and no token.
C2_AnyRequestIs500 ==
  (Handled /\ (~serverEnv.apiKey.set \/ ~serverEnv.apiSecret.set
                 \/ ~serverEnv.wsUrl.set))
    => /\ httpRes.status = 500
       /\ DOMAIN httpRes.details = {"apiKey", "apiSecret", "wsUrl"}
       /\ \A k \in {"apiKey", "apiSecret", "wsUrl"} :
            /\ httpRes.details[k] \in {"Missing", "Present"}
            /\ httpRes.details[k] = "Missing" <=> ~serverEnv[k].set
       /\ httpRes.token = NoToken

\* C2 amended: every POST request with a non-empty username, while any of
\* the three configuration values is unset or empty, is answered with status
\* 500 and a details object with exactly the keys apiKey, apiSecret, wsUrl,
\* each 'Missing' exactly when the value is unset or empty and 'Present'
\* otherwise; jwt.sign is not reached and no token is produced.
C2_ConfigErrorReport ==
  (Handled /\ httpReq.method = "POST" /\ ~UsernameMissing /\ ConfigIncomplete)
    => /\ httpRes.status = 500
       /\ httpRes.error = <<"Missing LiveKit configuration">>
       /\ DOMAIN httpRes.details = {"apiKey", "apiSecret", "wsUrl"}
       /\ \A k \in {"apiKey", "apiSecret", "wsUrl"} :
            /\ httpRes.details[k] \in {"Missing", "Present"}
            /\ httpRes.details[k] = "Missing"
                 <=> (~serverEnv[k].set \/ serverEnv[k].val = EmptyStr)
       /\ httpRes.token = NoToken
       /\ ~httpRes.signReached

\* a configuration error reported for a configuration with an empty value,
\* an unset value and a present value
C2_Witness ==
  /\ httpReq.method = "POST"
  /\ ~UsernameMissing
  /\ serverEnv.apiKey = Val(EmptyStr)
  /\ serverEnv.apiSecret = Undefined
  /\ serverEnv.wsUrl = Val(<<"v">>)
  /\ httpRes.status = 500
  /\ httpRes.details =
       [apiKey |-> "Missing", apiSecret |-> "Missing", wsUrl |-> "Present"]

\* C3: every POST request with a non-empty username u, with the three
\* configuration values present and jwt.sign succeeding, is answered with
\* success, carrying the token, wsUrl = the configured URL and roomName =
\* 'ai-chat-room'; the token's claims have iss = the configured key id,
\* sub = u, exp - nbf = 21600, video.room = 'ai-chat-room', and roomJoin,
\* canPublish, canSubscribe and canPublishData all true.
C3_TokenClaims ==
  (Handled /\ httpReq.method = "POST" /\ ~UsernameMissing
     /\ ~ConfigIncomplete /\ httpReq.sign = "ok")
    => /\ httpRes.status = 200
       /\ httpRes.wsUrl = serverEnv.wsUrl.val
       /\ httpRes.roomName = <<"ai-chat-room">>
       /\ httpRes.token # NoToken
       /\ httpRes.token.alg = "HS256"
       /\ httpRes.token.secret = serverEnv.apiSecret.val
       /\ LET c == httpRes.token.claims
          IN  /\ c.iss = serverEnv.apiKey.val
              /\ c.sub = httpReq.username.val
              /\ c.nbf = httpReq.nowSec
              /\ c.exp - c.nbf = 21600
              /\ c.video.room = <<"ai-chat-room">>
              /\ c.video.roomJoin
              /\ c.video.canPublish
              /\ c.video.canSubscribe
              /\ c.video.canPublishData

\* a token issued to alice
C3_Witness ==
  /\ httpReq.method = "POST"
  /\ httpReq.username = Val(<<"a", "l", "i", "c", "e">>)
  /\ httpReq.sign = "ok"
  /\ httpReq.nowSec = 1700000000
  /\ httpRes.status = 200
  /\ httpRes.token.claims.sub = <<"a", "l", "i", "c", "e">>
  /\ httpRes.token.claims.exp = 1700021600


\* ========================================================================
\* Properties of the session controller
\* ========================================================================
IsBlank(u) == \A i \in 1..Len(u) : u[i] = " "
LastMsg(list) == list[Len(list)]
GrowsByOne == /\ Len(messages') = Len(messages) + 1
              /\ SubSeq(messages', 1, Len(messages)) = messages
Active(a) == calls[a].status \in {"connecting", "connected"}

\* C4: a join with an empty or whitespace-only username leaves the
\* controller in Idle (isConnecting and isConnected stay false), starts no
\* token request, creates no room and sets the error 'Please enter a
\* username'.
C4_BlankJoinStaysIdle ==
  [][\A u \in UsernameInputs :
       (IsBlank(u) /\ connectToRoom(u))
         => /\ ~isConnecting /\ ~isConnected
            /\ ~isConnecting' /\ ~isConnected'
            /\ error' = <<"Please enter a username">>
            /\ error' # EmptyStr
            /\ calls' = calls
            /\ room' = room]_vars

\* a whitespace-only username was submitted
C4_Witness ==
  /\ username = <<" ">>
  /\ error = <<"Please enter a username">>
  /\ ~isConnecting /\ ~isConnected
  /\ \A a \in Joins : calls[a] = NoCall

\* C5: the Connected event received while Connecting makes the controller
\* Connected (isConnected true, isConnecting false, error cleared) and the
\* message list grows by exactly one message, appended at the end: a system
\* message with the text 'Connected to chat room!'.
C5_ConnectedEvent ==
  [][\A a \in Joins :
       (isConnecting /\ RoomConnected(a))
         => /\ isConnected' /\ ~isConnecting' /\ error' = EmptyStr
            /\ GrowsByOne
            /\ LastMsg(messages').isSystem
            /\ ~LastMsg(messages').isUser
            /\ ~LastMsg(messages').isBot
            /\ LastMsg(messages').sender = <<"System">>
            /\ LastMsg(messages').message = <<"Connected to chat room!">>]_vars

\* Connected was handled with an earlier message in the list
C5_Witness ==
  /\ isConnected /\ ~isConnecting
  /\ Len(messages) = 2
  /\ messages[1].message = <<"Disconnected from chat room">>
  /\ messages[2].message = <<"Connected to chat room!">>
  /\ messages[2].isSystem

\* C6: the disconnect action taken while Connected leaves the controller in
\* Idle with participants empty, messages empty and error cleared, and
\* releases the held room: room.disconnect() was invoked on it, it is no
\* longer connecting or connected, and room is null.
C6_Disconnect ==
  [][(isConnected /\ ~isConnecting /\ disconnect)
       => /\ ~isConnected' /\ ~isConnecting'
          /\ participants' = << >>
          /\ messages' = << >>
          /\ error' = EmptyStr
          /\ room' = 0
          /\ room # 0 =>
               /\ calls'[room].status \notin {"connecting", "connected"}
               /\ \/ calls'[room] = NoCall
                  \/ calls'[room].disconnects > calls[room].disconnects]_vars

\* the controller is back in Idle after a disconnect of a connected room
C6_Witness ==
  /\ ~isConnected /\ ~isConnecting
  /\ room = 0
  /\ participants = << >>
  /\ messages = << >>
  /\ \E a \in Joins : calls[a].status = "closing" /\ calls[a].disconnects >= 1
                        /\ calls[a].pc = "done"

\* C7: the participants list never holds an identity twice.
C7_NoDuplicateParticipants ==
  \A i, j \in 1..Len(participants) :
    i # j => participants[i] # participants[j]

\* ParticipantConnected for ai-agent was handled while ai-agent, seeded by
\* the Connected handler in front of the local identity, was in the list
C7_Witness ==
  /\ participants = <<AI_AGENT, <<"b">>>>
  /\ messages # << >>
  /\ LastMsg(messages).message = AgentJoinedText

\* C8: a DataReceived event from sender identity i whose payload decodes to
\* the text t appends exactly one message with sender i (or 'Unknown' when
\* the sender is missing) and body t; the message is tagged isBot exactly
\* when i is 'ai-agent', and is never tagged user or system.
C8_DataReceived ==
  [][\A a \in Joins, payload \in PayloadInputs, participant \in SenderInputs,
        rnd \in RandomInputs :
       DataReceived(a, payload, participant, rnd)
         => /\ GrowsByOne
            /\ LastMsg(messages').message = Decode(payload)
            /\ LastMsg(messages').sender =
                 (IF participant.set THEN participant.val ELSE <<"Unknown">>)
            /\ LastMsg(messages').isBot
                 <=> (participant.set /\ participant.val = <<"ai-agent">>)
            /\ ~LastMsg(messages').isUser
            /\ ~LastMsg(messages').isSystem]_vars

\* a message of another participant and then a message of the agent were
\* taken in
C8_Witness ==
  /\ Len(messages) >= 2
  /\ LastMsg(messages).isBot
  /\ LastMsg(messages).sender = AI_AGENT
  /\ LastMsg(messages).message = <<"i", "U+FFFD">>
  /\ \E i \in 1..Len(messages) :
       messages[i].sender = <<"c">> /\ ~messages[i].isBot
         /\ ~messages[i].isSystem

\* C10: at most one room connection created by the controller is
\* connecting or connected at a time.  Refuted: a disconnect taken after
\* the Connected event and before the continuation of connectToRoom has
\* stored the room finds room null, leaves the room connected, and the next
\* join opens a second one.
C10_AtMostOneActive == Cardinality({a \in Joins : Active(a)}) <= 1


\* ========================================================================
\* The end-to-end scenario (checked under ChatSpec)
\* ========================================================================
\* the role under which Message.jsx renders a message (getMessageStyle)
Role(m) ==
  IF m.isUser THEN "user"
  ELSE IF m.isBot THEN "agent"
  ELSE IF m.isSystem THEN "system"
  ELSE "other"

View(list) ==
  [i \in 1..Len(list) |-> [role |-> Role(list[i]), body |-> list[i].message]]

\* scn.stage = 4: the steps so far were a join with a valid username, the
\* Connected event, a send of the non-empty text scn.m and a DataReceived
\* from ai-agent with the text scn.r, in this order, with no other user
\* action and no other room event; scn.held tells whether the continuation
\* of connectToRoom had stored the room when the user sent, scn.pubFailed
\* whether the publish was rejected.
ScenarioDone == scn.stage = 4

ConnectionState(connecting, connected) ==
  IF connecting THEN "Connecting" ELSE IF connected THEN "Connected" ELSE "Idle"

ConnectionEdges ==
  {<<"Idle", "Connecting">>, <<"Connecting", "Connected">>,
   <<"Connecting", "Idle">>, <<"Connected", "Idle">>}

\* the connection state before and after a step
ConnectionStep ==
  <<ConnectionState(isConnecting, isConnected),
    ConnectionState(isConnecting', isConnected')>>

StepsAlongEdge == ConnectionStep \in ConnectionEdges

\* C11: the connection state starts in Idle, isConnecting and isConnected
\* are never both true, and every step that changes the connection state
\* takes one of the edges Idle->Connecting, Connecting->Connected,
\* Connecting->Idle, Connected->Idle.
C11_ConnectionStateEdges ==
  /\ ConnectionState(isConnecting, isConnected) = "Idle"
  /\ [](~(isConnecting /\ isConnected))
  /\ [][StepsAlongEdge]_<<isConnecting, isConnected>>

\* a second join is Connecting after a session that was Connected and was
\* closed by the room service: all four edges have been taken but
\* Connecting->Idle
C11_Witness ==
  /\ isConnecting /\ ~isConnected
  /\ Len(messages) = 2
  /\ messages[1].message = ConnectedText
  /\ messages[2].message = DisconnectedText


\* ========================================================================
\* Failure of a join (checked under Spec)
\* ========================================================================
\* the step is the catch block of invocation a of connectToRoom: the token
\* request failed, or room.connect threw
JoinFails(a) ==
  \/ FetchSettles(a) /\ calls'[a].pc # "connect"
  \/ ConnectRejects(a)

\* C12 as stated: a failure of the token request or of room.connect during
\* Connecting ends in Idle with an error that starts with 'Connection
\* failed: ', with the held room reference null and with no token request
\* or connect call in flight.  Refuted: the catch block leaves room alone,
\* and the Disconnected handler does too, so the Room of an earlier session
\* that the room service closed is still held when a later join fails.
C12_ConnectFailure ==
  [][\A a \in Joins :
       (isConnecting /\ JoinFails(a))
         => /\ ~isConnecting' /\ ~isConnected'
            /\ Len(error') >= 2
            /\ error'[1] = "Connection failed: "
            /\ room' = 0
            /\ \A b \in Joins : calls'[b].pc \notin {"fetch", "connect"}]_vars


\* C12 amended: a failure of the token request or of room.connect during
\* Connecting ends in Idle with an error that starts with 'Connection
\* failed: ', leaves the held room reference as it was (null unless an
\* earlier session left its Room there), and leaves no token request or
\* connect call in flight.
C12_ConnectFailureKeepsRoom ==
  [][\A a \in Joins :
       (isConnecting /\ JoinFails(a))
         => /\ ~isConnecting' /\ ~isConnected'
            /\ Len(error') >= 2
            /\ error'[1] = "Connection failed: "
            /\ room' = room
            /\ room = 0 \/ calls[room].pc = "done"
            /\ \A b \in Joins : calls'[b].pc \notin {"fetch", "connect"}]_vars

\* room.connect threw on a first join
C12_Witness ==
  /\ ~isConnecting /\ ~isConnected
  /\ error = <<"Connection failed: ", "could not establish signal connection">>
  /\ room = 0
  /\ messages = << >>
  /\ \A a \in Joins : calls[a] = NoCall


\* ========================================================================
\* Failure of a publish (checked under ChatSpec)
\* ========================================================================
\* C13 as stated: when the publish of a sent message fails, the error is
\* 'Failed to send message: ...' and the message list after the handler
\* equals the list before it.  Refuted: when the failure is handled within
\* the millisecond in which the message was created, Date.now() equals its
\* id and the filter removes it, with every other message of that id.
C13_RollbackRemovesNothing ==
  [][PublishRejects
       => /\ error'[1] = "Failed to send message: "
          /\ messages' = messages]_vars

\* the messages of list whose id is not the time t
CreatedOutside(list, t) == SelectSeq(list, LAMBDA m : m.id # t)

\* C13 amended: when the publish of a sent message fails, the error is
\* 'Failed to send message: ...' and the handler removes exactly the
\* messages whose id equals the time at which it runs; it removes nothing
\* when the clock has advanced since every message of the list was created.
C13_RollbackByCurrentTime ==
  [][PublishRejects
       => /\ error'[1] = "Failed to send message: "
          /\ Len(error') >= 2
          /\ messages' = CreatedOutside(messages, DateNow)
          /\ (\A i \in 1..Len(messages) : messages[i].timestamp < now)
               => messages' = messages]_vars

\* a publish failed within the millisecond of the Connected event and of
\* the send: the handler removed the notice and the sent message
C13_Witness ==
  /\ error = <<"Failed to send message: ", "publish failed">>
  /\ isConnected /\ room # 0
  /\ now = 0
  /\ messages = << >>
  /\ pendingSends = << >>


C15_DisconnectedEventClears ==
  [][\A a \in Joins :
       (isConnected /\ ~isConnecting /\ RoomDisconnected(a))
         => /\ ~isConnected' /\ ~isConnecting'
            /\ participants' = << >>
            /\ \A i \in 1..Len(messages') :
                 messages'[i].message = <<"Disconnected from chat room">>]_vars


\* ========================================================================
\* Teardown by the user and the connect call in flight (checked under Spec)
\* ========================================================================
\* the invocation a of connectToRoom has not returned
InFlight(a) == calls[a].pc \in {"fetch", "connect", "resolved"}

C17_DoubleDisconnect ==
  [][(disconnect /\ room # 0)
       => \/ calls'[room].disconnects = calls[room].disconnects + 2
          \/ calls[room].status = "closed" /\ calls'[room] = NoCall]_vars

\* disconnect() was invoked twice on the Room of a session that the user
\* left
C17_Witness ==
  /\ ~isConnecting /\ ~isConnected
  /\ room = 0
  /\ \E a \in Joins : /\ calls[a].disconnects = 2
                      /\ calls[a].status = "closing"
                      /\ calls[a].pc = "done"


\* C18: after the disconnect action no room connection created by the
\* controller is connecting or connected.  Refuted: a disconnect taken
\* after the Connected event and before setRoom(room) finds room null and
\* invokes disconnect() on nothing.
C18_DisconnectLeavesNoOpenRoom ==
  [][disconnect
       => \A a \in Joins : calls'[a].status \notin {"connecting", "connected"}
    ]_vars

\* the controller has released the Room of invocation a: disconnect() was
\* invoked on it, by the disconnect action or by the effect cleanup
Released(a) == calls[a].disconnects > 0

\* C19: an event of a released Room changes neither isConnected nor the
\* participants nor the messages.  Refuted: the handlers stay registered
\* and do not test which Room the controller holds, so the Disconnected
\* event that follows room.disconnect() is handled like any other.
C19_ReleasedRoomIsSilent ==
  [][(\E a \in Joins :
        /\ Released(a)
        /\ \/ RoomDisconnected(a)
           \/ \E identity \in RemoteIdentities :
                \/ ParticipantConnected(a, identity)
                \/ ParticipantDisconnected(a, identity))
       => UNCHANGED <<isConnected, participants, messages>>]_vars

\* ========================================================================
\* Message ids (checked under MessageLogSpec)
\* ========================================================================
\* C20: the messages of the list carry pairwise distinct ids.  Refuted: the
\* ids of notices and of sent messages are Date.now(), so two of them
\* created within one millisecond are equal.
C20_DistinctIds ==
  \A i, j \in 1..Len(messages) : i # j => messages[i].id # messages[j].id


\* ========================================================================
\* Termination of a join (checked under FairSpec)
\* ========================================================================
\* C21: when every pending token request and every pending connect call
\* completes, a controller that is Connecting eventually is Connected or is
\* back in Idle with an error set.
C21_ConnectingEnds ==
  isConnecting
    ~> \/ isConnected /\ ~isConnecting
       \/ ~isConnected /\ ~isConnecting /\ error # EmptyStr

\* a join entered Connecting and came back to Idle because the token
\* endpoint answered 500
C21_Witness ==
  /\ ~isConnecting /\ ~isConnected
  /\ error = <<"Connection failed: ", "Token request failed: ", "500">>
  /\ username = <<"b", " ">>
  /\ room = 0

====
